---- MODULE Spec2Model ----
(***************************************************************************)
(* ABC-MRT16 (src/abcmrt/ABC_MRT16.py): the template store, the estimator  *)
(* process() with its per-trial gate and scorer, and the file numbering.   *)
(*                                                                         *)
(* Three specifications share the variables:                               *)
(*   Spec        one caller issuing load_templates() / process() calls     *)
(*   SpecThreads several threads issuing their calls concurrently          *)
(*   SpecNum     the pure functions, each applied once to an input         *)
(***************************************************************************)
EXTENDS Integers, Sequences, FiniteSets, TLC

VARIABLES
    loaded,     \* _loader.loaded
    templates,  \* _loader.templates ("None" before the load)
    resource,   \* state of templates/ABC_MRT_FB_templates.mat in the package
    reads,      \* number of pkgutil.get_data reads of the resource so far
    pc,         \* per thread: position in load_templates / process
    op,         \* per thread: the API function it is executing
    batch,      \* per thread: the (speech, file_num) lists given to process
    padded,     \* per thread: speech after line 544 (list of padded clips)
    k,          \* per thread: loop index of process (0-based, as in the code)
    success,    \* per thread: the success array
    outcome,    \* per thread: what the call returned or raised
    attempts,   \* per thread: resource reads made by the current call
    scored,     \* per thread: loop indices whose trial ran alignment/scoring
    fnOp,       \* SpecNum: the function applied last
    fnName,     \* SpecNum: argument of file2number
    fnNum,      \* SpecNum: argument of number2file
    fnArg,      \* SpecNum: arguments of the other functions
    fnRet       \* SpecNum: the value returned (or the exception raised)

vars == <<loaded, templates, resource, reads, pc, op, batch, padded, k,
          success, outcome, attempts, scored, fnOp, fnName, fnNum, fnArg, fnRet>>

storeVars == <<loaded, templates, resource, reads>>
callVars == <<pc, op, batch, padded, k, success, outcome, attempts, scored>>
numVars == <<fnOp, fnName, fnNum, fnArg, fnRet>>

(***************************************************************************)
(* Bounds of the model.                                                    *)
(***************************************************************************)
NThreads == 2
MaxReads == 2
MaxBatch == 2
NumSlack == 3
MaxDen == 6
MaxCols == 4

Threads == 1..NThreads

(***************************************************************************)
(* Floating point values are modelled as exact rationals <<num, den>> in   *)
(* lowest terms with den > 0; NaN is <<0, 0>>.                             *)
(***************************************************************************)
NaN == <<0, 0>>

IsNaN(x) == x[2] = 0

Abs(i) == IF i < 0 THEN -i ELSE i

RECURSIVE Gcd(_, _)
Gcd(a, b) == IF b = 0 THEN a ELSE Gcd(b, a % b)

Rat(n, d) ==
    IF d = 0 THEN NaN
    ELSE LET g == Gcd(Abs(n), Abs(d))
             s == IF d < 0 THEN -1 ELSE 1
         IN  <<(s * n) \div g, (s * d) \div g>>

RInt(i) == <<i, 1>>

RSub(x, y) == IF IsNaN(x) \/ IsNaN(y) THEN NaN
              ELSE Rat(x[1] * y[2] - y[1] * x[2], x[2] * y[2])

RAdd(x, y) == IF IsNaN(x) \/ IsNaN(y) THEN NaN
              ELSE Rat(x[1] * y[2] + y[1] * x[2], x[2] * y[2])

RMul(x, y) == IF IsNaN(x) \/ IsNaN(y) THEN NaN
              ELSE Rat(x[1] * y[1], x[2] * y[2])

\* x / y as numpy divides: 0/0 is nan (x/0 for x # 0 is +-inf, not needed here)
RDiv(x, y) == IF IsNaN(x) \/ IsNaN(y) \/ y[1] = 0 THEN NaN
              ELSE Rat(x[1] * y[2], x[2] * y[1])

\* x > y on floats: False when either side is NaN
RGt(x, y) == ~IsNaN(x) /\ ~IsNaN(y) /\ x[1] * y[2] > y[1] * x[2]

(***************************************************************************)
(* Python values of mixed type are tagged records with the same fields.    *)
(***************************************************************************)
PyInt(i) == [tag |-> "int", num |-> i, str |-> <<>>]
PyNone == [tag |-> "None", num |-> 0, str |-> <<>>]
PyFloatNaN == [tag |-> "nan", num |-> 0, str |-> <<>>]
PyStr(s) == [tag |-> "str", num |-> 0, str |-> s]
PyRaise(e) == [tag |-> e, num |-> 0, str |-> <<>>]

\* list[i] with Python's index rules: negative indices count from the end
PyIndex(list, i) ==
    IF 0 <= i /\ i < Len(list) THEN [ok |-> TRUE, val |-> list[i + 1]]
    ELSE IF i < 0 /\ -i <= Len(list) THEN [ok |-> TRUE, val |-> list[Len(list) + i + 1]]
    ELSE [ok |-> FALSE, val |-> <<>>]

(***************************************************************************)
(* File numbering.  A string is a sequence of one-character strings.       *)
(***************************************************************************)
DigitChars == <<"0", "1", "2", "3", "4", "5", "6", "7", "8", "9">>

IsDigit(c) == \E d \in 1..10 : DigitChars[d] = c

DigitVal(c) == (CHOOSE d \in 1..10 : DigitChars[d] = c) - 1

\* str(n) for n >= 0, as the f-string formats an int
RECURSIVE IntToStr(_)
IntToStr(n) == IF n < 10 THEN <<DigitChars[n + 1]>>
               ELSE Append(IntToStr(n \div 10), DigitChars[(n % 10) + 1])

\* int(s) for a non-empty string of digits
RECURSIVE StrToInt(_)
StrToInt(s) == IF Len(s) = 0 THEN 0
               ELSE 10 * StrToInt(SubSeq(s, 1, Len(s) - 1)) + DigitVal(s[Len(s)])

\* os.path.basename (posix): what follows the last "/"
RECURSIVE basename(_)
basename(p) == IF Len(p) = 0 THEN <<>>
               ELSE IF p[Len(p)] = "/" THEN <<>>
               ELSE Append(basename(SubSeq(p, 1, Len(p) - 1)), p[Len(p)])

\* end of the maximal run of digits of s that starts at position i (i-1 if none)
RECURSIVE DigitsEnd(_, _)
DigitsEnd(s, i) == IF i <= Len(s) /\ IsDigit(s[i]) THEN DigitsEnd(s, i + 1)
                   ELSE i - 1

\* whether s[i..] starts with the literal lit
StartsAt(s, i, lit) ==
    /\ i + Len(lit) - 1 <= Len(s)
    /\ \A j \in 1..Len(lit) : s[i + j - 1] = lit[j]

\* the match of [MF]\d_b\d+_w\d+ anchored at position i, or no match.
\* \d+ is greedy and "_" is no digit, so each digit group is the maximal run.
MatchAt(s, i) ==
    IF ~(i + 3 <= Len(s) /\ s[i] \in {"M", "F"} /\ IsDigit(s[i + 1])
         /\ StartsAt(s, i + 2, <<"_", "b">>))
    THEN [ok |-> FALSE, talker |-> <<>>, batch |-> <<>>, word |-> <<>>]
    ELSE LET be == DigitsEnd(s, i + 4)
             we == DigitsEnd(s, be + 3)
         IN  IF be >= i + 4 /\ StartsAt(s, be + 1, <<"_", "w">>) /\ we >= be + 3
             THEN [ok |-> TRUE, talker |-> SubSeq(s, i, i + 1),
                   batch |-> SubSeq(s, i + 4, be), word |-> SubSeq(s, be + 3, we)]
             ELSE [ok |-> FALSE, talker |-> <<>>, batch |-> <<>>, word |-> <<>>]

\* re.search: the match at the leftmost position that has one
RECURSIVE SearchFrom(_, _)
SearchFrom(s, i) ==
    IF i > Len(s) THEN MatchAt(s, i)
    ELSE IF MatchAt(s, i).ok THEN MatchAt(s, i)
    ELSE SearchFrom(s, i + 1)

talkers == <<<<"F", "1">>, <<"F", "3">>, <<"M", "3">>, <<"M", "4">>>>
batches == 50
words == 6
N_words == batches * words

\* tuple.index(x): 0-based position of the first element equal to x
TupleIndex(t, x) ==
    IF \E i \in 1..Len(t) : t[i] = x
    THEN PyInt((CHOOSE i \in 1..Len(t) : t[i] = x /\ \A j \in 1..(i - 1) : t[j] # x) - 1)
    ELSE PyRaise("ValueError")

\* mutant of file2number: the pattern is searched in the whole path
file2number_noBasename(file) ==
    LET m == SearchFrom(file, 1)
    IN  IF ~m.ok THEN PyNone
        ELSE LET talker_index == TupleIndex(talkers, m.talker)
             IN  IF talker_index.tag = "ValueError" THEN PyNone
                 ELSE PyInt(talker_index.num * 300 + (StrToInt(m.batch) - 1) * 6
                            + StrToInt(m.word))

file2number(file) ==
    LET name == basename(file)
        m == SearchFrom(name, 1)
    IN  IF ~m.ok THEN PyNone
        ELSE LET talker_index == TupleIndex(talkers, m.talker)
             IN  IF talker_index.tag = "ValueError" THEN PyNone
                 ELSE PyInt(talker_index.num * 300 + (StrToInt(m.batch) - 1) * 6
                            + StrToInt(m.word))

\* the name of talker, batch and word as line 283 formats it
FileName(talker, batch_index, word_index) ==
    talker \o <<"_", "b">> \o IntToStr(batch_index) \o <<"_", "w">> \o IntToStr(word_index)
        \o <<".", "w", "a", "v">>

\* mutant of number2file: the batch is taken from num, not from the talker's offset
number2file_batchFromNum(num) ==
    IF num < 1 \/ num > 1200 THEN PyRaise("ValueError")
    ELSE LET talker == PyIndex(talkers, (num - 1) \div N_words)
         IN  IF ~talker.ok THEN PyRaise("IndexError")
             ELSE PyStr(FileName(talker.val, ((num - 1) \div words) + 1, ((num - 1) % words) + 1))

\* mutant of number2file: the range check lets 0 through
number2file_lowerBoundZero(num) ==
    IF num < 0 \/ num > 1200 THEN PyRaise("ValueError")
    ELSE LET talker == PyIndex(talkers, (num - 1) \div N_words)
             talker_offset == ((num - 1) % N_words) + 1
         IN  IF ~talker.ok THEN PyRaise("IndexError")
             ELSE PyStr(FileName(talker.val, ((talker_offset - 1) \div words) + 1,
                                 ((num - 1) % words) + 1))

number2file(num) ==
    IF num < 1 \/ num > 1200 THEN PyRaise("ValueError")
    ELSE LET talker_index == (num - 1) \div N_words
             talker_offset == ((num - 1) % N_words) + 1
             batch_index == ((talker_offset - 1) \div words) + 1
             word_index == ((num - 1) % words) + 1
             talker == PyIndex(talkers, talker_index)
         IN  IF ~talker.ok THEN PyRaise("IndexError")
             ELSE PyStr(FileName(talker.val, batch_index, word_index))

\* lines 314-415: the list literal of file_order()
file_order_table ==
    <<232, 393, 1068, 729, 230, 470, 910, 831, 288, 562, 1174, 632,
      237, 452, 955, 885, 7, 515, 1119, 838, 92, 545, 1038, 658,
      126, 600, 1045, 694, 10, 505, 1063, 864, 264, 405, 1113, 870,
      104, 540, 1105, 856, 111, 431, 1086, 853, 261, 430, 1142, 670,
      223, 343, 1065, 690, 91, 570, 1173, 741, 279, 364, 1128, 787,
      239, 548, 1076, 634, 55, 372, 911, 898, 190, 315, 935, 624,
      11, 437, 1073, 899, 229, 583, 1110, 620, 58, 380, 907, 731,
      253, 527, 1047, 604, 138, 519, 1176, 692, 51, 336, 1008, 883,
      43, 322, 1094, 719, 135, 346, 1067, 605, 73, 386, 995, 852,
      116, 567, 1131, 665, 83, 318, 974, 782, 18, 304, 1035, 644,
      65, 435, 968, 747, 78, 558, 957, 797, 134, 508, 927, 684,
      79, 512, 1044, 752, 269, 523, 914, 681, 56, 598, 1170, 863,
      194, 327, 986, 699, 278, 553, 1198, 778, 87, 469, 1077, 613,
      33, 363, 1186, 619, 248, 467, 1147, 647, 93, 493, 1134, 611,
      179, 348, 1029, 637, 98, 533, 1034, 725, 256, 373, 1020, 742,
      182, 411, 904, 735, 131, 561, 912, 674, 160, 599, 1157, 892,
      42, 530, 1064, 846, 35, 537, 973, 607, 5, 459, 958, 614,
      21, 433, 1049, 862, 287, 378, 1054, 738, 169, 366, 949, 859,
      30, 588, 1175, 889, 45, 522, 1200, 783, 71, 451, 1015, 877,
      90, 310, 953, 779, 119, 547, 963, 625, 147, 463, 1096, 643,
      69, 303, 921, 734, 240, 455, 903, 745, 227, 499, 919, 786,
      296, 355, 1059, 851, 198, 531, 1071, 888, 299, 338, 1166, 645,
      53, 389, 1033, 775, 174, 555, 1006, 636, 32, 528, 1193, 649,
      110, 595, 1108, 823, 188, 388, 1167, 679, 15, 368, 1053, 816,
      241, 395, 970, 628, 60, 449, 985, 746, 123, 311, 925, 763,
      189, 482, 1120, 895, 38, 396, 1101, 689, 102, 385, 1005, 688,
      149, 413, 1090, 672, 39, 453, 1195, 821, 96, 399, 1060, 654,
      206, 438, 1050, 873, 6, 471, 1000, 798, 81, 542, 1039, 790,
      176, 546, 1155, 618, 72, 342, 1004, 715, 209, 485, 965, 696,
      66, 305, 1130, 847, 20, 302, 972, 805, 224, 502, 1125, 865,
      291, 323, 1042, 606, 254, 432, 1103, 837, 244, 481, 1055, 891,
      136, 574, 983, 768, 105, 337, 952, 834, 178, 436, 1014, 811,
      27, 448, 971, 615, 75, 325, 984, 900, 17, 365, 1152, 602,
      211, 447, 946, 663, 202, 458, 1082, 820, 108, 592, 1168, 667,
      273, 320, 908, 617, 24, 359, 1153, 718, 88, 356, 1137, 609,
      225, 424, 1019, 621, 124, 333, 1021, 784, 29, 575, 1124, 722,
      50, 503, 928, 650, 4, 367, 937, 836, 300, 406, 1080, 874,
      3, 466, 948, 673, 228, 301, 966, 867, 243, 560, 967, 802,
      270, 410, 1148, 770, 193, 489, 962, 815, 120, 312, 1017, 695,
      294, 525, 1074, 845, 62, 507, 964, 794, 74, 496, 1140, 832,
      155, 397, 933, 603, 238, 423, 1159, 677, 250, 416, 1066, 732,
      140, 468, 1189, 709, 213, 351, 1143, 793, 284, 500, 1129, 796,
      231, 591, 943, 861, 137, 513, 924, 635, 222, 554, 1112, 601,
      205, 349, 1139, 622, 59, 381, 1056, 693, 185, 426, 1133, 739,
      121, 326, 1185, 855, 268, 417, 1081, 702, 25, 510, 1144, 764,
      196, 371, 1156, 894, 207, 403, 956, 785, 272, 335, 994, 707,
      181, 573, 1115, 814, 118, 314, 1095, 659, 247, 543, 1085, 766,
      67, 306, 1037, 743, 106, 441, 989, 765, 129, 509, 990, 887,
      9, 572, 1197, 882, 28, 439, 1031, 881, 285, 324, 1199, 843,
      41, 375, 1183, 698, 113, 421, 1190, 753, 258, 587, 1135, 827,
      221, 370, 1180, 686, 165, 552, 1093, 701, 19, 520, 960, 705,
      1, 332, 930, 849, 46, 404, 1111, 676, 86, 425, 1003, 675,
      167, 358, 981, 803, 82, 345, 939, 767, 141, 532, 1002, 750,
      54, 487, 1132, 835, 122, 420, 961, 840, 12, 490, 901, 869,
      40, 462, 906, 876, 22, 565, 916, 733, 34, 446, 1016, 875,
      130, 422, 920, 809, 133, 491, 1122, 706, 95, 392, 1181, 700,
      262, 394, 1041, 669, 13, 414, 918, 662, 297, 504, 1136, 612,
      293, 486, 1024, 854, 283, 564, 1179, 780, 49, 461, 1123, 668,
      186, 450, 1163, 710, 94, 475, 950, 751, 215, 328, 1010, 817,
      281, 353, 1026, 776, 180, 580, 932, 757, 26, 494, 1048, 848,
      245, 473, 945, 826, 36, 480, 1187, 703, 208, 347, 922, 655,
      85, 506, 1165, 858, 84, 495, 1164, 657, 242, 511, 1107, 866,
      101, 369, 977, 812, 267, 402, 1011, 781, 277, 549, 1092, 829,
      107, 465, 1087, 850, 226, 443, 1098, 656, 195, 568, 1036, 726,
      233, 377, 1072, 748, 263, 445, 942, 841, 212, 362, 917, 661,
      197, 418, 1062, 756, 217, 400, 1178, 680, 151, 581, 1075, 744,
      158, 390, 1091, 758, 117, 484, 1114, 691, 168, 488, 1069, 685,
      164, 354, 1106, 652, 109, 586, 941, 678, 187, 419, 1127, 740,
      114, 407, 1145, 804, 172, 563, 1089, 736, 77, 309, 1028, 789,
      163, 412, 1079, 806, 139, 516, 905, 721, 286, 517, 1100, 819,
      89, 440, 1078, 697, 153, 539, 1154, 626, 31, 360, 1102, 727,
      57, 341, 1109, 687, 234, 529, 1177, 818, 112, 340, 1184, 683,
      298, 329, 999, 860, 218, 429, 1032, 801, 44, 571, 1057, 724,
      246, 387, 926, 642, 97, 374, 1083, 671, 16, 566, 951, 760,
      152, 556, 1023, 714, 132, 313, 1097, 641, 184, 357, 1138, 711,
      143, 376, 1158, 791, 70, 307, 1118, 761, 260, 534, 982, 871,
      68, 589, 1104, 651, 157, 478, 1196, 795, 252, 541, 940, 828,
      154, 409, 923, 716, 183, 476, 1099, 886, 249, 474, 969, 897,
      251, 401, 1009, 830, 290, 352, 938, 728, 216, 316, 1161, 629,
      292, 308, 1116, 666, 236, 524, 1027, 755, 204, 536, 959, 842,
      144, 501, 979, 825, 37, 331, 1058, 712, 48, 384, 1149, 627,
      14, 569, 1001, 762, 173, 582, 1188, 844, 148, 557, 997, 810,
      23, 319, 1169, 723, 265, 428, 1040, 788, 170, 492, 929, 769,
      259, 514, 1182, 759, 274, 350, 993, 737, 257, 334, 975, 833,
      201, 464, 1084, 772, 255, 434, 947, 749, 125, 577, 936, 730,
      266, 383, 1146, 708, 156, 579, 980, 717, 99, 330, 944, 660,
      171, 361, 1051, 610, 47, 596, 915, 648, 127, 454, 1061, 890,
      219, 584, 1030, 896, 235, 518, 998, 839, 52, 460, 1162, 773,
      271, 521, 1126, 878, 275, 408, 1192, 631, 100, 578, 978, 893,
      282, 483, 1025, 704, 289, 576, 1141, 608, 146, 457, 1172, 774,
      103, 498, 987, 777, 276, 550, 1013, 884, 177, 479, 934, 813,
      142, 544, 1088, 638, 145, 593, 1043, 808, 150, 339, 931, 868,
      166, 477, 996, 664, 199, 551, 1012, 807, 220, 597, 1117, 880,
      115, 398, 1171, 879, 61, 317, 1160, 799, 63, 497, 976, 623,
      159, 472, 1046, 824, 128, 344, 1121, 653, 191, 535, 1150, 771,
      295, 594, 902, 633, 200, 590, 1070, 754, 161, 321, 1007, 800,
      175, 379, 1191, 720, 64, 526, 1052, 630, 80, 415, 1018, 872,
      203, 427, 954, 640, 162, 444, 1022, 639, 76, 559, 991, 857,
      214, 391, 992, 792, 210, 442, 1151, 646, 192, 382, 909, 822,
      2, 538, 913, 616, 280, 456, 1194, 682, 8, 585, 988, 713>>

\* mutant of file_order: the first entry is typed twice and the last is lost
file_order_firstTwice == <<file_order_table[1]>> \o SubSeq(file_order_table, 1, 1199)

\* line 416: file_order() returns the list
file_order == file_order_table

(***************************************************************************)
(* Speech clips.  A clip of `size` samples is its leading samples `data`   *)
(* followed by size - Len(data) zeros, so that clips of 42000 and more     *)
(* samples are values of the model.  The floating point kernel of lines    *)
(* 571-606 (spectrogram, alignment, row normalisation, per-bin and per-    *)
(* band correlation with a template) is a function of the clip and the     *)
(* template alone; a clip carries it as `tf`: against template ent.idx,    *)
(* ent.cnt of the 21 band correlations are ent.hi and the others ent.lo;   *)
(* against a template without an entry all 21 are tf.dflt.                 *)
(***************************************************************************)
minLen == 42000
NTemplates == 1200
NBands == 21
NRetained == 16
NWords == 6
NBins == 215

RECURSIVE SumTo(_, _)
\* sum of f[1..n]
SumTo(f, n) == IF n = 0 THEN 0 ELSE SumTo(f, n - 1) + f[n]

RECURSIVE NpSum(_, _, _)
\* np.sum of f[lo..hi], by halves
NpSum(f, lo, hi) ==
    IF lo > hi THEN 0
    ELSE IF lo = hi THEN f[lo]
    ELSE LET mid == (lo + hi) \div 2
         IN  NpSum(f, lo, mid) + NpSum(f, mid + 1, hi)

\* lines 152-176: first and last FFT bin (1-based) of each AI band
AIlims ==
    <<<<4, 4>>, <<5, 6>>, <<7, 7>>, <<8, 9>>, <<10, 11>>, <<12, 13>>, <<14, 15>>,
      <<16, 17>>, <<18, 19>>, <<20, 21>>, <<22, 23>>, <<24, 26>>, <<27, 28>>,
      <<29, 31>>, <<32, 35>>, <<36, 40>>, <<41, 45>>, <<46, 52>>, <<53, 62>>,
      <<63, 76>>, <<77, 215>>>>

\* row[start:stop] = v on a row of length NBins: the positions start..stop-1,
\* counted from 0
SetSlice(row, start, stop, v) ==
    [i \in 1..NBins |-> IF start <= i - 1 /\ i - 1 < stop THEN v ELSE row[i]]

\* mutant of BandRow: the slice starts at firstfreq, as if bins were 0-based
BandRow_startAtFirstfreq(firstfreq, lastfreq) ==
    SetSlice([i \in 1..NBins |-> 0], firstfreq, lastfreq, 1)

\* lines 178, 183: a row of zeros with AI[k, (firstfreq - 1) : lastfreq] = 1
BandRow(firstfreq, lastfreq) ==
    SetSlice([i \in 1..NBins |-> 0], firstfreq - 1, lastfreq, 1)

\* _makeAI(): the 21 by 215 matrix, row k for AI band k
makeAI == [b \in 1..NBands |-> BandRow(AIlims[b][1], AIlims[b][2])]

\* mutant of binsPerBand: the sum runs along axis 0 (per bin)
binsPerBand_axis0(A) ==
    [c \in 1..NBins |-> NpSum([b \in 1..NBands |-> A[b][c]], 1, NBands)]

\* line 198: np.sum(AI, axis=1)
binsPerBand(A) == [b \in 1..NBands |-> NpSum(A[b], 1, NBins)]

Clip(d, n, t) == [data |-> d, size |-> n, tf |-> t]

\* _padSpeech: trailing zeros up to the minimum length
padSpeech(s) ==
    LET l == s.size
    IN  IF l < minLen THEN [s EXCEPT !.size = l + (minLen - l)] ELSE s

\* sample i (1-based) of a clip
Sample(s, i) == IF i <= Len(s.data) THEN s.data[i] ELSE 0

\* scipy.signal.correlate(s, s, "full") at lag j >= 0; lags -j and j agree
AutoCorr(s, j) ==
    LET n == Len(s.data)
    IN  IF j >= n THEN 0
        ELSE SumTo([i \in 1..(n - j) |-> Sample(s, i) * Sample(s, i + j)], n - j)

SetMin(S) == CHOOSE x \in S : \A y \in S : x <= y

\* line 557: the minimum of the autocorrelation divided by the zero-lag energy;
\* with zero energy every quotient is 0/0 and the minimum is nan
xcmOf(s) ==
    LET n == Len(s.data)
        lags == {AutoCorr(s, j) : j \in 0..(n - 1)}
                    \cup (IF s.size > n THEN {0} ELSE {})
        energy == AutoCorr(s, 0)
    IN  IF energy = 0 THEN NaN ELSE Rat(SetMin(lags), energy)

\* mutant of SpeechNotDetected: the nan of a zero-energy clip is not tested
SpeechNotDetected_noNanCheck(xcm) == RGt(xcm, Rat(-1, 10))

\* mutant of SpeechNotDetected: the threshold itself counts as no speech
SpeechNotDetected_atThreshold(xcm) ==
    (~IsNaN(xcm) /\ ~RGt(Rat(-1, 10), xcm)) \/ IsNaN(xcm)

\* line 559: "Speech not detected, skip the algorithm"
SpeechNotDetected(xcm) == RGt(xcm, Rat(-1, 10)) \/ IsNaN(xcm)

\* mutant of first_word: the group is computed from n instead of n - 1
first_word_fromN(n) == 6 * ((n \div 6) + 1) - 5

\* mutant of correct_word: the 1-based word position is compared with the
\* 0-based result of nanargmax
correct_word_oneBased(n) == ((n - 1) % 6) + 1

\* lines 579, 583
correct_word(n) == (n - 1) % 6

first_word(n) == 6 * (((n - 1) \div 6) + 1) - 5

\* _loader.templates[0, i]: numpy resolves a negative index from the end
TemplateAt(tmpl, i) ==
    IF tmpl = "None" THEN [exc |-> "TypeError", idx |-> 0]
    ELSE IF 0 <= i /\ i < NTemplates THEN [exc |-> "", idx |-> i]
    ELSE IF i < 0 /\ -i <= NTemplates THEN [exc |-> "", idx |-> NTemplates + i]
    ELSE [exc |-> "IndexError", idx |-> 0]

\* lines 586-606 for one word: the 21 band correlations of the clip's
\* best-aligned window with template idx
BandCorr(s, idx) ==
    IF \E e \in 1..Len(s.tf.ent) : s.tf.ent[e].idx = idx
    THEN LET ent == s.tf.ent[CHOOSE e \in 1..Len(s.tf.ent) : s.tf.ent[e].idx = idx]
         IN  [b \in 1..NBands |-> IF b <= ent.cnt THEN ent.hi ELSE ent.lo]
    ELSE [b \in 1..NBands |-> s.tf.dflt]

\* np.maximum(x, 0): nan stays nan
Clamp(x) == IF IsNaN(x) THEN NaN ELSE IF x[1] < 0 THEN RInt(0) ELSE x

\* order of np.sort: ascending, nan last
SortLeq(x, y) == IsNaN(y) \/ (~IsNaN(x) /\ x[1] * y[2] <= y[1] * x[2])

RECURSIVE Insert(_, _)
Insert(sorted, x) ==
    IF Len(sorted) = 0 THEN <<x>>
    ELSE IF SortLeq(x, Head(sorted)) THEN <<x>> \o sorted
    ELSE <<Head(sorted)>> \o Insert(Tail(sorted), x)

RECURSIVE NpSort(_)
NpSort(v) == IF Len(v) = 0 THEN <<>>
             ELSE Insert(NpSort(SubSeq(v, 1, Len(v) - 1)), v[Len(v)])

\* np.flip
Flip(v) == [i \in 1..Len(v) |-> v[Len(v) + 1 - i]]

\* mutant of nanargmax: np.argmax, for which a nan is the largest value
nanargmax_argmax(row) ==
    IF \E i \in 1..Len(row) : IsNaN(row[i])
    THEN [exc |-> "", loc |-> (CHOOSE i \in 1..Len(row) :
                                  IsNaN(row[i]) /\ \A j \in 1..(i - 1) : ~IsNaN(row[j])) - 1]
    ELSE [exc |-> "",
          loc |-> (CHOOSE i \in 1..Len(row) :
                      /\ \A j \in 1..Len(row) : ~RGt(row[j], row[i])
                      /\ \A j \in 1..(i - 1) : RGt(row[i], row[j])) - 1]

\* np.nanargmax of a row: the first position of the largest non-nan value
\* (0-based), ValueError when every value is nan
nanargmax(row) ==
    LET ok == {i \in 1..Len(row) : ~IsNaN(row[i])}
    IN  IF ok = {} THEN [exc |-> "ValueError", loc |-> 0]
        ELSE [exc |-> "",
              loc |-> (CHOOSE i \in ok :
                          /\ \A j \in ok : ~RGt(row[j], row[i])
                          /\ \A j \in ok : j < i => RGt(row[i], row[j])) - 1]

(***************************************************************************)
(* The aligner, for spectrograms of one row of integer magnitudes.  A row  *)
(* of zero mean and unit energy is d / sqrt(sum of d^2) for an integer     *)
(* vector d, kept as [num |-> d / gcd(d), sq |-> sum of num^2]; a constant *)
(* row (0/0 in the code) is the nan row, with sq = 0.  A correlation c of  *)
(* two such rows is kept as sign(c) * c^2, a rational: x |-> sign(x) * x^2 *)
(* is strictly increasing, so every comparison and nanargmax are those of  *)
(* c.                                                                      *)
(***************************************************************************)
RECURSIVE GcdSeq(_, _)
GcdSeq(d, n) == IF n = 0 THEN 0 ELSE Gcd(GcdSeq(d, n - 1), Abs(d[n]))

\* d / sqrt(sum of d^2)
UnitRow(d) ==
    LET g == GcdSeq(d, Len(d))
    IN  IF g = 0 THEN [num |-> d, sq |-> 0]
        ELSE [num |-> [j \in 1..Len(d) |-> d[j] \div g],
              sq |-> SumTo([j \in 1..Len(d) |-> (d[j] \div g) * (d[j] \div g)], Len(d))]

\* _TFnorm of one row: (X - mean) / sqrt(sum of squares), mean = sum / n
TFnorm(X) ==
    LET n == Len(X)
    IN  UnitRow([j \in 1..n |-> n * X[j] - SumTo(X, n)])

\* line 786: np.sum(np.multiply(T, R)); nan if either row is nan
RowCorr(T, R) ==
    IF T.sq = 0 \/ R.sq = 0 THEN NaN
    ELSE LET a == SumTo([j \in 1..Len(T.num) |-> T.num[j] * R.num[j]], Len(T.num))
         IN  Rat(a * Abs(a), T.sq * R.sq)

RECURSIVE T_sum(_, _, _)
\* lines 774-777: the sum of the window at shift i, updated from shift i - 1
T_sum(X, q, i) ==
    IF i = 0 THEN SumTo(SubSeq(X, 1, q), q)
    ELSE T_sum(X, q, i - 1) - X[i] + X[i + q]

RECURSIVE ShiftCorrs(_, _, _)
\* lines 772-786: C[0..nshifts-1]
ShiftCorrs(X, R, nshifts) ==
    IF nshifts = 0 THEN <<>>
    ELSE LET q == Len(R.num)
             i == nshifts - 1
             T == SubSeq(X, i + 1, i + q)
         IN  Append(ShiftCorrs(X, R, nshifts - 1),
                    RowCorr(UnitRow([j \in 1..q |-> q * T[j] - T_sum(X, q, i)]), R))

\* _group_corr(X, R), lines 766-794
group_corr(X, R) ==
    LET n == Len(X)
        q == Len(R.num)
        nshifts == n - q + 1
        shift == nanargmax(ShiftCorrs(X, R, nshifts))
    IN  IF shift.exc # "" THEN PyRaise(shift.exc)
        ELSE PyInt(shift.loc - 1)

\* X[:, start:stop] of a one-row X, with Python's slice rules: a negative
\* bound counts from the end, and bounds are clipped to 0..n
PySlice(X, start, stop) ==
    LET n == Len(X)
        norm(i) == IF i < 0 THEN (IF i + n < 0 THEN 0 ELSE i + n)
                   ELSE IF i > n THEN n ELSE i
    IN  SubSeq(X, norm(start) + 1, norm(stop))

\* mutant of AlignedWindow: the returned shift is used as the first column
AlignedWindow_fromShift(X, shift, ncols) == PySlice(X, shift, shift + ncols)

\* line 596: temp = X[:, (shift + 1) : (shift + ncols + 1)]
AlignedWindow(X, shift, ncols) == PySlice(X, shift + 1, shift + ncols + 1)

\* lines 606-613 for one word: clamp, sort, flip, keep the 16 largest
SortedColumn(s, idx) ==
    LET bc == BandCorr(s, idx)
        clamped == [b \in 1..NBands |-> Clamp(bc[b])]
    IN  SubSeq(Flip(NpSort(clamped)), 1, NRetained)

RECURSIVE SACColumns(_, _, _)
\* the columns 0..w-1 of SAC, for the words whose templates are at[0..w-1]
SACColumns(s, at, w) ==
    IF w = 0 THEN <<>>
    ELSE Append(SACColumns(s, at, w - 1), SortedColumn(s, at[w - 1].idx))

RECURSIVE Locs(_, _)
\* line 616: np.nanargmax(SAC, axis=1) for the rows 1..r
Locs(SAC, r) ==
    IF r = 0 THEN <<>>
    ELSE Append(Locs(SAC, r - 1), nanargmax([w \in 1..NWords |-> SAC[w][r]]))

\* lines 571-619: the scorer for one clip that passed the gate
Score(s, n, tmpl) ==
    LET at == [w \in 0..(NWords - 1) |-> TemplateAt(tmpl, first_word(n) - 1 + w)]
    IN  IF \E w \in 0..(NWords - 1) : at[w].exc # ""
        THEN [exc |-> at[CHOOSE w \in 0..(NWords - 1) :
                             at[w].exc # "" /\ \A v \in 0..(w - 1) : at[v].exc = ""].exc,
              val |-> NaN]
        ELSE LET loc == Locs(SACColumns(s, at, NWords), NRetained)
             IN  IF \E r \in 1..NRetained : loc[r].exc # ""
                 THEN [exc |-> "ValueError", val |-> NaN]
                 ELSE [exc |-> "",
                       val |-> Rat(Cardinality({r \in 1..NRetained :
                                                   loc[r].loc = correct_word(n)}),
                                   NRetained)]

\* math.isnan(x) for a file number
MathIsNan(fn) ==
    IF fn.tag = "None" THEN [exc |-> "TypeError", val |-> FALSE]
    ELSE [exc |-> "", val |-> fn.tag = "nan"]

\* lines 548-619: one iteration of the loop, for the padded clip s and file
\* number fn.  exc is the exception it raises (if any), val the value stored
\* in success[k], ran whether the scorer was entered.
TrialResult(s, fn, tmpl) ==
    IF s.size = 0 THEN [exc |-> "", val |-> NaN, ran |-> FALSE]
    ELSE IF MathIsNan(fn).exc # "" THEN [exc |-> MathIsNan(fn).exc, val |-> NaN, ran |-> FALSE]
    ELSE IF MathIsNan(fn).val THEN [exc |-> "", val |-> NaN, ran |-> FALSE]
    ELSE IF SpeechNotDetected(xcmOf(s)) THEN [exc |-> "", val |-> RInt(0), ran |-> FALSE]
    ELSE LET sc == Score(s, fn.num, tmpl)
         IN  [exc |-> sc.exc, val |-> sc.val, ran |-> TRUE]

\* np.mean: the sum over the length; nan for no element, and nan if any is nan
RECURSIVE RSum(_)
RSum(v) == IF Len(v) = 0 THEN RInt(0) ELSE RAdd(RSum(SubSeq(v, 1, Len(v) - 1)), v[Len(v)])

\* mutant of Mean: np.nanmean, the mean of the values that are not nan
NanMean(v) ==
    LET kept == SelectSeq(v, LAMBDA x : ~IsNaN(x))
    IN  RDiv(RSum(kept), RInt(Len(kept)))

Mean(v) == RDiv(RSum(v), RInt(Len(v)))

\* mutant of guess_correction: the parentheses around the difference are lost
guess_correction_noParens(intell) == RSub(RMul(Rat(6, 5), intell), Rat(1, 6))

\* line 451
guess_correction(intell) == RMul(Rat(6, 5), RSub(intell, Rat(1, 6)))

(***************************************************************************)
(* Inputs.                                                                 *)
(***************************************************************************)
\* a signal without spectral structure: every row of its spectrogram window
\* is constant, so every correlation is nan (_TFnorm divides by zero)
tfFlat == [dflt |-> NaN, ent |-> <<>>]

\* the source recording of file 1: correlation 1 with template 0 in every band
tfA == [dflt |-> Rat(-1, 10),
        ent |-> <<[idx |-> 0, hi |-> RInt(1), cnt |-> NBands, lo |-> RInt(1)],
                  [idx |-> 1, hi |-> Rat(1, 2), cnt |-> NBands, lo |-> Rat(1, 2)]>>]

\* a degraded recording: template 0 wins 5 bands, template 1 is level
tfB == [dflt |-> Rat(-1, 10),
        ent |-> <<[idx |-> 0, hi |-> Rat(3, 4), cnt |-> 5, lo |-> Rat(-1, 5)],
                  [idx |-> 1, hi |-> Rat(1, 2), cnt |-> NBands, lo |-> Rat(1, 2)]>>]

\* a recording with an undefined correlation in three bands of template 0 and
\* templates 0, 1 and 2 level elsewhere
tfNanTie == [dflt |-> Rat(-1, 10),
             ent |-> <<[idx |-> 0, hi |-> NaN, cnt |-> 3, lo |-> Rat(1, 2)],
                       [idx |-> 1, hi |-> Rat(1, 2), cnt |-> NBands, lo |-> Rat(1, 2)],
                       [idx |-> 2, hi |-> Rat(1, 2), cnt |-> NBands, lo |-> Rat(1, 2)]>>]

EmptyClip == Clip(<<>>, 0, tfFlat)

\* np.zeros(n) for some positive lengths n
SilentClips == {Clip(<<0, 0>>, 2, tfFlat), Clip(<<>>, minLen + 8000, tfFlat)}

\* no anticorrelation: the minimum of the autocorrelation is 0
NoiseClip == Clip(<<1, 1>>, 2, tfA)

\* anticorrelation -1/2 at lag 1
SpeechA == Clip(<<1, -1>>, 2, tfA)

SpeechB == Clip(<<1, -1>>, minLen + 8000, tfB)

\* anticorrelation exactly -1/10: energy 10, autocorrelation -1 at lag 1
ThresholdClip == Clip(<<2, 1, -1, 2>>, 4, tfA)

Clips == {EmptyClip, NoiseClip, SpeechA, SpeechB} \cup SilentClips

Trial(s, fn) == [speech |-> s, file_num |-> fn]

\* every clip with a file number of its group; an undefined file number with
\* an empty and a non-empty clip; file numbers outside 1..1200 with a speech
\* clip and with a silent one; the clip at the threshold of the gate
Trials ==
    {Trial(s, fn) : s \in Clips, fn \in {PyInt(1), PyInt(2)}}
        \cup {Trial(s, fn) : s \in {EmptyClip, SpeechA}, fn \in {PyNone, PyFloatNaN}}
        \cup {Trial(SpeechA, fn) : fn \in {PyInt(0), PyInt(NTemplates + 1)}}
        \cup {Trial(Clip(<<0, 0>>, 2, tfFlat), PyInt(NTemplates + 1))}
        \cup {Trial(ThresholdClip, PyInt(1))}

RECURSIVE SeqsUpTo(_, _)
\* the sequences over S of length at most n
SeqsUpTo(S, n) ==
    IF n = 0 THEN {<<>>}
    ELSE LET shorter == SeqsUpTo(S, n - 1)
         IN  shorter \cup {Append(q, x) : q \in {r \in shorter : Len(r) = n - 1}, x \in S}

Batches == SeqsUpTo(Trials, MaxBatch)

\* the batches of the concurrent callers
ThreadBatches == {<<Trial(SpeechA, PyInt(1))>>, <<Trial(NoiseClip, PyInt(2))>>}

(***************************************************************************)
(* The template store and the calls.                                       *)
(***************************************************************************)
NoOutcome == [status |-> "none", exc |-> "", phi_hat |-> NaN, success |-> <<>>]

Idle(t) ==
    /\ pc' = [pc EXCEPT ![t] = "idle"]
    /\ op' = [op EXCEPT ![t] = "none"]
    /\ batch' = [batch EXCEPT ![t] = <<>>]
    /\ padded' = [padded EXCEPT ![t] = <<>>]
    /\ k' = [k EXCEPT ![t] = 0]
    /\ success' = [success EXCEPT ![t] = <<>>]
    /\ outcome' = [outcome EXCEPT ![t] = NoOutcome]
    /\ attempts' = [attempts EXCEPT ![t] = 0]
    /\ scored' = [scored EXCEPT ![t] = {}]

\* the call of thread t ends with exception e
Raise(t, e) ==
    /\ pc' = [pc EXCEPT ![t] = "done"]
    /\ outcome' = [outcome EXCEPT ![t] =
                      [status |-> "raised", exc |-> e, phi_hat |-> NaN, success |-> <<>>]]

\* load_templates is over: it returns to its caller (line 530) or to the user
AfterLoad(t) ==
    IF op[t] = "process"
    THEN pc' = [pc EXCEPT ![t] = "prep"] /\ outcome' = outcome
    ELSE /\ pc' = [pc EXCEPT ![t] = "done"]
         /\ outcome' = [outcome EXCEPT ![t] =
                           [status |-> "returned", exc |-> "", phi_hat |-> NaN, success |-> <<>>]]

\* a user calls abcmrt.load_templates()
CallLoadTemplates(t) ==
    /\ pc[t] = "idle"
    /\ reads < MaxReads
    /\ pc' = [pc EXCEPT ![t] = "lt_check"]
    /\ op' = [op EXCEPT ![t] = "load_templates"]
    /\ UNCHANGED <<storeVars, batch, padded, k, success, outcome, attempts, scored, numVars>>

\* a user calls abcmrt.process(speech, file_num) with a batch of B; line 530
\* calls load_templates first
CallProcess(t, B) ==
    /\ pc[t] = "idle"
    /\ reads < MaxReads
    /\ \E b \in B : batch' = [batch EXCEPT ![t] = b]
    /\ pc' = [pc EXCEPT ![t] = "lt_check"]
    /\ op' = [op EXCEPT ![t] = "process"]
    /\ UNCHANGED <<storeVars, padded, k, success, outcome, attempts, scored, numVars>>

\* mutant of NeedsLoad: the loaded flag is not consulted
NeedsLoad_always(l) == TRUE

\* line 472: if not _loader.loaded
NeedsLoad(l) == ~l

CheckLoaded(t) ==
    /\ pc[t] = "lt_check"
    /\ IF NeedsLoad(loaded)
       THEN pc' = [pc EXCEPT ![t] = "ld_get"] /\ outcome' = outcome
       ELSE AfterLoad(t)
    /\ UNCHANGED <<storeVars, op, batch, padded, k, success, attempts, scored, numVars>>

\* line 124: pkgutil.get_data reads the resource
GetData(t) ==
    /\ pc[t] = "ld_get"
    /\ reads' = reads + 1
    /\ attempts' = [attempts EXCEPT ![t] = @ + 1]
    /\ IF resource = "missing"
       THEN Raise(t, "FileNotFoundError")
       ELSE pc' = [pc EXCEPT ![t] = "ld_parse"] /\ outcome' = outcome
    /\ UNCHANGED <<loaded, templates, resource, op, batch, padded, k, success, scored, numVars>>

\* mutant of LoadMat: a failure to parse is swallowed and the load goes on
LoadMat_swallowError(t) ==
    /\ pc[t] = "ld_parse"
    /\ pc' = [pc EXCEPT ![t] = "ld_store"]
    /\ UNCHANGED <<storeVars, op, batch, padded, k, success, outcome, attempts, scored, numVars>>

\* lines 126-127: sio.loadmat and the lookup of "TFtemplatesFB"
LoadMat(t) ==
    /\ pc[t] = "ld_parse"
    /\ IF resource = "malformed"
       THEN Raise(t, "ValueError")
       ELSE pc' = [pc EXCEPT ![t] = "ld_store"] /\ outcome' = outcome
    /\ UNCHANGED <<storeVars, op, batch, padded, k, success, attempts, scored, numVars>>

\* lines 129-130 with the flag raised before the templates are stored
StoreTemplates_flagFirst(t) ==
    /\ pc[t] = "ld_store"
    /\ loaded' = TRUE
    /\ pc' = [pc EXCEPT ![t] = "ld_flag"]
    /\ UNCHANGED <<templates, resource, reads, op, batch, padded, k, success, outcome,
                   attempts, scored, numVars>>

\* line 129: self.templates = TFtemplatesFB
StoreTemplates(t) ==
    /\ pc[t] = "ld_store"
    /\ templates' = "TFtemplatesFB"
    /\ pc' = [pc EXCEPT ![t] = "ld_flag"]
    /\ UNCHANGED <<loaded, resource, reads, op, batch, padded, k, success, outcome,
                   attempts, scored, numVars>>

\* line 130: self.loaded = True
SetLoaded(t) ==
    /\ pc[t] = "ld_flag"
    /\ loaded' = TRUE
    /\ AfterLoad(t)
    /\ UNCHANGED <<templates, resource, reads, op, batch, padded, k, success,
                   attempts, scored, numVars>>

\* lines 531-544: the success array and the padded clips
Prepare(t) ==
    /\ pc[t] = "prep"
    /\ success' = [success EXCEPT ![t] = [i \in 1..Len(batch[t]) |-> RInt(0)]]
    /\ padded' = [padded EXCEPT ![t] = [i \in 1..Len(batch[t]) |-> padSpeech(batch[t][i].speech)]]
    /\ k' = [k EXCEPT ![t] = 0]
    /\ pc' = [pc EXCEPT ![t] = "loop"]
    /\ UNCHANGED <<storeVars, op, batch, outcome, attempts, scored, numVars>>

\* mutant of RunTrial: the clip of the previous iteration is scored again
RunTrial_staleClip(t) ==
    /\ pc[t] = "loop"
    /\ k[t] < Len(padded[t])
    /\ LET r == TrialResult(padded[t][IF k[t] = 0 THEN 1 ELSE k[t]],
                            batch[t][k[t] + 1].file_num, templates)
       IN  /\ scored' = [scored EXCEPT ![t] = IF r.ran THEN @ \cup {k[t]} ELSE @]
           /\ IF r.exc # ""
              THEN Raise(t, r.exc) /\ UNCHANGED <<success, k>>
              ELSE /\ success' = [success EXCEPT ![t][k[t] + 1] = r.val]
                   /\ k' = [k EXCEPT ![t] = @ + 1]
                   /\ UNCHANGED <<pc, outcome>>
    /\ UNCHANGED <<storeVars, op, batch, padded, attempts, numVars>>

\* lines 546-619: iteration k of the loop
RunTrial(t) ==
    /\ pc[t] = "loop"
    /\ k[t] < Len(padded[t])
    /\ LET r == TrialResult(padded[t][k[t] + 1], batch[t][k[t] + 1].file_num, templates)
       IN  /\ scored' = [scored EXCEPT ![t] = IF r.ran THEN @ \cup {k[t]} ELSE @]
           /\ IF r.exc # ""
              THEN Raise(t, r.exc) /\ UNCHANGED <<success, k>>
              ELSE /\ success' = [success EXCEPT ![t][k[t] + 1] = r.val]
                   /\ k' = [k EXCEPT ![t] = @ + 1]
                   /\ UNCHANGED <<pc, outcome>>
    /\ UNCHANGED <<storeVars, op, batch, padded, attempts, numVars>>

\* lines 621-624: phi_hat and the return
Aggregate(t) ==
    /\ pc[t] = "loop"
    /\ k[t] = Len(padded[t])
    /\ pc' = [pc EXCEPT ![t] = "done"]
    /\ outcome' = [outcome EXCEPT ![t] =
                      [status |-> "returned", exc |-> "",
                       phi_hat |-> guess_correction(Mean(success[t])),
                       success |-> success[t]]]
    /\ UNCHANGED <<storeVars, op, batch, padded, k, success, attempts, scored, numVars>>

\* the caller has its result (or exception) and may call again
Finish(t) ==
    /\ pc[t] = "done"
    /\ Idle(t)
    /\ UNCHANGED <<storeVars, numVars>>

InitStore ==
    /\ loaded = FALSE
    /\ templates = "None"
    /\ reads = 0

InitCalls ==
    /\ pc = [t \in Threads |-> "idle"]
    /\ op = [t \in Threads |-> "none"]
    /\ batch = [t \in Threads |-> <<>>]
    /\ padded = [t \in Threads |-> <<>>]
    /\ k = [t \in Threads |-> 0]
    /\ success = [t \in Threads |-> <<>>]
    /\ outcome = [t \in Threads |-> NoOutcome]
    /\ attempts = [t \in Threads |-> 0]
    /\ scored = [t \in Threads |-> {}]

InitNumIdle ==
    /\ fnOp = "none"
    /\ fnName = <<>>
    /\ fnNum = 0
    /\ fnArg = <<>>
    /\ fnRet = PyNone

Init ==
    /\ InitStore
    /\ resource \in {"ok", "missing", "malformed"}
    /\ InitCalls
    /\ InitNumIdle

Step(t, B) ==
    \/ CallLoadTemplates(t)
    \/ CallProcess(t, B)
    \/ CheckLoaded(t)
    \/ GetData(t)
    \/ LoadMat(t)
    \/ StoreTemplates(t)
    \/ SetLoaded(t)
    \/ Prepare(t)
    \/ RunTrial(t)
    \/ Aggregate(t)
    \/ Finish(t)

\* one caller (thread 1), any batch
Next == Step(1, Batches)

Spec == Init /\ [][Next]_vars

\* every thread is a caller
NextThreads == \E t \in Threads : Step(t, ThreadBatches)

SpecThreads == Init /\ [][NextThreads]_vars

(***************************************************************************)
(* The pure functions, each applied once to an input of a bounded set.     *)
(***************************************************************************)
NamePrefixes ==
    {<<>>, <<"d", "/">>, <<"R", "x", "3", "_">>,
     <<"F", "1", "_", "b", "9", "_", "w", "9", "/">>,
     <<"M", "1", "_", "b", "1", "_", "w", "1", "_">>}

NameTalkers == {<<l, d>> : l \in {"F", "M", "T"}, d \in {"1", "3", "4", "9"}}

NameBatchSeps == {<<"_", "b">>, <<"_", "c">>}

NameWordSeps == {<<"_", "w">>, <<"w">>}

NameBatches == {<<>>, <<"1">>, <<"0", "7">>, <<"2", "4">>, <<"5", "0">>, <<"0">>}

NameWords == {<<>>, <<"1">>, <<"6">>, <<"0", "2">>, <<"1", "0">>, <<"0">>}

NameSuffixes == {<<>>, <<"_", "o", ".", "w", "a", "v">>, <<"/">>}

Names ==
    {p \o t \o bs \o b \o ws \o w \o x :
        p \in NamePrefixes, t \in NameTalkers, bs \in NameBatchSeps, b \in NameBatches,
        ws \in NameWordSeps, w \in NameWords, x \in NameSuffixes}

Numbers == (1 - NumSlack)..(NTemplates + NumSlack)

\* one application per behaviour: the functions keep no state
ApplyFile2Number ==
    /\ fnOp = "none"
    /\ \E name \in Names :
          /\ fnName' = name
          /\ fnRet' = file2number(name)
    /\ fnOp' = "file2number"
    /\ fnNum' = 0
    /\ fnArg' = <<>>
    /\ UNCHANGED <<storeVars, callVars>>

ApplyNumber2File ==
    /\ fnOp = "none"
    /\ \E n \in Numbers :
          /\ fnNum' = n
          /\ fnRet' = number2file(n)
    /\ fnOp' = "number2file"
    /\ fnName' = <<>>
    /\ fnArg' = <<>>
    /\ UNCHANGED <<storeVars, callVars>>

\* intelligibility values: the fractions of small denominator from -1 to 2, and nan
Intells == {Rat(a, b) : a \in -MaxDen..(2 * MaxDen), b \in 1..MaxDen} \cup {NaN}

ApplyGuessCorrection ==
    /\ fnOp = "none"
    /\ \E x \in Intells :
          /\ fnArg' = x
          /\ fnRet' = guess_correction(x)
    /\ fnOp' = "guess_correction"
    /\ UNCHANGED <<storeVars, callVars, fnName, fnNum>>

\* magnitudes of a spectrogram row
SampleValues == {0, 1, 2}

\* X has no fewer columns than R; R is normalised (it is _TFnorm of a row)
ApplyGroupCorr ==
    /\ fnOp = "none"
    /\ \E n \in 1..MaxCols : \E q \in 1..n :
          \E X \in [1..n -> SampleValues] : \E r \in [1..q -> SampleValues] :
              /\ fnArg' = [X |-> X, R |-> TFnorm(r)]
              /\ fnRet' = group_corr(X, TFnorm(r))
    /\ fnOp' = "_group_corr"
    /\ UNCHANGED <<storeVars, callVars, fnName, fnNum>>

\* lines 588-597 for one word: the alignment against the template rows R of
\* ncols columns, the window extracted and its normalisation
ApplyAlignWindow ==
    /\ fnOp = "none"
    /\ \E n \in 1..MaxCols : \E q \in 1..n :
          \E X \in [1..n -> SampleValues] : \E r \in [1..q -> SampleValues] :
              LET R == TFnorm(r)
                  ncols == Len(R.num)
                  shift == group_corr(X, R)
              IN  /\ fnArg' = [X |-> X, R |-> R]
                  /\ fnRet' = IF shift.tag # "int" THEN shift
                              ELSE [tag |-> "window",
                                    temp |-> AlignedWindow(X, shift.num, ncols),
                                    XX |-> TFnorm(AlignedWindow(X, shift.num, ncols))]
    /\ fnOp' = "window"
    /\ UNCHANGED <<storeVars, callVars, fnName, fnNum>>

\* clips whose six candidate columns reach line 616
RankedClips == {SpeechA, SpeechB, Clip(<<1, -1>>, 2, tfNanTie), Clip(<<1, -1>>, 2, tfFlat)}

\* lines 606-616 for a clip and a file number of 1..1200: SAC and the word
\* selected at each of its rows
ApplyNanargmax ==
    /\ fnOp = "none"
    /\ \E s \in RankedClips : \E n \in 1..(2 * NWords) :
          LET at == [w \in 0..(NWords - 1) |->
                        TemplateAt("TFtemplatesFB", first_word(n) - 1 + w)]
              SAC == SACColumns(s, at, NWords)
          IN  /\ fnArg' = SAC
              /\ fnRet' = Locs(SAC, NRetained)
    /\ fnOp' = "nanargmax"
    /\ UNCHANGED <<storeVars, callVars, fnName, fnNum>>

\* lines 544-619: the loop over the padded clips from trial i on, appending
\* to the successes in acc; stops at the first trial that raises
RECURSIVE process_loop(_, _, _, _)
process_loop(speech, file_num, i, acc) ==
    IF i > Len(speech) THEN [exc |-> "", success |-> acc]
    ELSE LET r == TrialResult(padSpeech(speech[i]), file_num[i], "TFtemplatesFB")
         IN  IF r.exc # "" THEN [exc |-> r.exc, success |-> acc]
             ELSE process_loop(speech, file_num, i + 1, Append(acc, r.val))

\* lines 476-624 for a list of clips and a list of file numbers, with the
\* templates loaded: (phi_hat, success), or the exception of the first
\* trial that raises
process(speech, file_num) ==
    LET r == process_loop(speech, file_num, 1, <<>>)
    IN  IF r.exc # "" THEN PyRaise(r.exc)
        ELSE [tag |-> "returned",
              phi_hat |-> guess_correction(Mean(r.success)),
              success |-> r.success]

\* clips scored against a whole group, and the groups 6j+1 .. 6j+6
GroupClips == Clips \cup RankedClips \cup {ThresholdClip}

Groups == {0, 1, 57, 199}

\* process([s] * 6, [6j+1, ..., 6j+6]): one clip against the six file
\* numbers of group j
ApplyProcessGroup ==
    /\ fnOp = "none"
    /\ \E s \in GroupClips : \E j \in Groups :
          /\ fnArg' = s
          /\ fnNum' = j
          /\ fnRet' = process([i \in 1..NWords |-> s],
                              [i \in 1..NWords |-> PyInt(NWords * j + i)])
    /\ fnOp' = "process_group"
    /\ UNCHANGED <<storeVars, callVars, fnName>>

\* lines 583-588: the template index read for file number n and word w
ApplyTemplateIndex ==
    /\ fnOp = "none"
    /\ \E n \in Numbers : \E w \in 0..(NWords - 1) :
          LET at == TemplateAt("TFtemplatesFB", first_word(n) - 1 + w)
          IN  /\ fnArg' = [n |-> n, word |-> w]
              /\ fnRet' = IF at.exc # "" THEN PyRaise(at.exc) ELSE PyInt(at.idx)
    /\ fnOp' = "templates"
    /\ UNCHANGED <<storeVars, callVars, fnName, fnNum>>

\* lines 192, 198 (module import): AI = _makeAI() and binsPerBand
ApplyMakeAI ==
    /\ fnOp = "none"
    /\ fnOp' = "_makeAI"
    /\ fnRet' = [AI |-> makeAI, binsPerBand |-> binsPerBand(makeAI)]
    /\ UNCHANGED <<storeVars, callVars, fnName, fnNum, fnArg>>

\* file_order() takes no argument
ApplyFileOrder ==
    /\ fnOp = "none"
    /\ fnOp' = "file_order"
    /\ fnRet' = file_order
    /\ UNCHANGED <<storeVars, callVars, fnName, fnNum, fnArg>>

InitNum ==
    /\ InitStore
    /\ resource = "ok"
    /\ InitCalls
    /\ InitNumIdle

NextNum ==
    \/ ApplyFile2Number
    \/ ApplyNumber2File
    \/ ApplyFileOrder
    \/ ApplyGuessCorrection
    \/ ApplyMakeAI
    \/ ApplyGroupCorr
    \/ ApplyNanargmax
    \/ ApplyTemplateIndex
    \/ ApplyAlignWindow
    \/ ApplyProcessGroup

SpecNum == InitNum /\ [][NextNum]_vars

(***************************************************************************)
(* Claims.                                                                 *)
(***************************************************************************)
\* the trials of the running process call of the caller that the loop has completed
Completed == IF op[1] = "process" /\ pc[1] \in {"loop", "done"} THEN 1..k[1] ELSE {}

\* the process call of the caller ended with an exception raised by iteration k
RaisedInLoop ==
    /\ op[1] = "process"
    /\ pc[1] = "done"
    /\ outcome[1].status = "raised"
    /\ Len(padded[1]) > 0

\* the value process stores for a trial processed alone with the templates loaded
Alone(tr) == TrialResult(padSpeech(tr.speech), tr.file_num, "TFtemplatesFB")

IsSilent(s) == s.size > 0 /\ \A i \in 1..Len(s.data) : s.data[i] = 0

Undefined(fn) == fn.tag \in {"None", "nan"}

\* C1: a trial whose clip is empty (zero samples) gets success NaN, whatever
\* its file number, and the iteration that handles it raises no exception.
C1_EmptyClipIsNaN ==
    /\ \A j \in Completed : batch[1][j].speech.size = 0 => IsNaN(success[1][j])
    /\ RaisedInLoop => batch[1][k[1] + 1].speech.size # 0

\* C2: a trial whose file number is undefined (None or NaN) gets success NaN,
\* its iteration raises no exception, and every other completed trial of the
\* batch has the value it gets alone.
C2_UndefinedFileNumberIsNaN ==
    /\ \A j \in Completed :
          IF Undefined(batch[1][j].file_num) THEN IsNaN(success[1][j])
          ELSE success[1][j] = Alone(batch[1][j]).val
    /\ RaisedInLoop => ~Undefined(batch[1][k[1] + 1].file_num)

\* C3: with concurrent first calls the resource load is executed at most once.
C3_SingleInitialization == resource = "ok" => reads <= 1

\* the sum of the trial successes in sixteenths, for success values without NaN
RECURSIVE Sixteenths(_)
Sixteenths(v) ==
    IF Len(v) = 0 THEN 0
    ELSE Sixteenths(SubSeq(v, 1, Len(v) - 1)) + (v[Len(v)][1] * 16) \div v[Len(v)][2]

\* C4: process returns phiHat = (6/5) * (mean - 1/6) of the mean over all
\* trials, NaN as soon as one trial is NaN (or there is no trial), and the
\* returned successes are the values the trials get alone.
C4_PhiHatIsNaNPropagatingMean ==
    (op[1] = "process" /\ outcome[1].status = "returned") =>
        LET sv == outcome[1].success
            n == Len(sv)
            phi == outcome[1].phi_hat
        IN  /\ n = Len(batch[1])
            /\ \A j \in 1..n : sv[j] = Alone(batch[1][j]).val
            /\ IF n = 0 \/ \E j \in 1..n : IsNaN(sv[j])
               THEN IsNaN(phi)
               ELSE ~IsNaN(phi) /\ phi[1] * (80 * n) = (6 * Sixteenths(sv) - 16 * n) * phi[2]

C4_Witness ==
    /\ op[1] = "process"
    /\ outcome[1].status = "returned"
    /\ Len(outcome[1].success) = 2
    /\ IsNaN(outcome[1].success[1])
    /\ outcome[1].success[2] = Rat(5, 16)
    /\ IsNaN(outcome[1].phi_hat)

\* C5: an all-zero clip of positive length with a defined file number gets
\* success exactly 0, without exception and without entering the scorer.
C5_SilenceIsZero ==
    /\ \A j \in Completed :
          (IsSilent(batch[1][j].speech) /\ batch[1][j].file_num.tag = "int") =>
              (success[1][j] = RInt(0) /\ (j - 1) \notin scored[1])
    /\ RaisedInLoop =>
          ~(IsSilent(batch[1][k[1] + 1].speech) /\ batch[1][k[1] + 1].file_num.tag = "int")

C5_Witness ==
    /\ op[1] = "process"
    /\ outcome[1].status = "returned"
    /\ Len(batch[1]) = 1
    /\ batch[1][1].speech = Clip(<<>>, minLen + 8000, tfFlat)
    /\ batch[1][1].file_num = PyInt(2)
    /\ outcome[1].success = <<RInt(0)>>
    /\ scored[1] = {}

\* C6: for every n in 1..1200, file2number(number2file(n)) = n.
C6_RoundTrip ==
    (fnOp = "number2file" /\ fnNum \in 1..1200) =>
        (fnRet.tag = "str" /\ file2number(fnRet.str) = PyInt(fnNum))

C6_Witness == fnOp = "number2file" /\ fnNum = 740 /\ file2number(fnRet.str) = PyInt(740)

\* the part of a path after its last "/"
BaseOf(p) ==
    LET cut == CHOOSE c \in 0..Len(p) :
                   /\ c = 0 \/ p[c] = "/"
                   /\ \A j \in (c + 1)..Len(p) : p[j] # "/"
    IN  SubSeq(p, cut + 1, Len(p))

\* the value of a string of decimal digits
Decimal(ds) == SumTo([i \in 1..Len(ds) |-> DigitVal(ds[i]) * 10 ^ (Len(ds) - i)], Len(ds))

\* the places <<i, be, we>> where s holds {talker}_b{batch}_w{word}: talker at
\* i..i+1, batch digits at i+4..be, word digits at be+3..we, taken to their end
PatternPlaces(s) ==
    LET starts == {i \in 1..Len(s) :
                      /\ i + 3 <= Len(s)
                      /\ s[i] \in {"M", "F"} /\ IsDigit(s[i + 1])
                      /\ s[i + 2] = "_" /\ s[i + 3] = "b"}
        bends(i) == {b \in (i + 4)..Len(s) :
                        /\ b + 2 <= Len(s)
                        /\ \A j \in (i + 4)..b : IsDigit(s[j])
                        /\ s[b + 1] = "_" /\ s[b + 2] = "w"}
        wends(b) == {w \in (b + 3)..Len(s) :
                        /\ \A j \in (b + 3)..w : IsDigit(s[j])
                        /\ (w = Len(s) \/ ~IsDigit(s[w + 1]))}
    IN  UNION {UNION {{<<i, b, w>> : w \in wends(b)} : b \in bends(i)} : i \in starts}

TalkerNumber(t) ==
    CASE t = <<"F", "1">> -> 0
      [] t = <<"F", "3">> -> 1
      [] t = <<"M", "3">> -> 2
      [] t = <<"M", "4">> -> 3
      [] OTHER -> -1

\* C7: file2number strips the directories; it returns None when the base name
\* holds no {talker}_b{batch}_w{word} or the (first) talker is none of F1, F3,
\* M3, M4, and talkerIndex*300 + (batch-1)*6 + word otherwise; it never raises.
C7_File2Number ==
    fnOp = "file2number" =>
        LET base == BaseOf(fnName)
            places == PatternPlaces(base)
        IN  IF places = {} THEN fnRet = PyNone
            ELSE LET m == CHOOSE x \in places : \A y \in places : x[1] <= y[1]
                     t == TalkerNumber(SubSeq(base, m[1], m[1] + 1))
                 IN  IF t < 0 THEN fnRet = PyNone
                     ELSE fnRet = PyInt(t * 300
                                        + (Decimal(SubSeq(base, m[1] + 4, m[2])) - 1) * 6
                                        + Decimal(SubSeq(base, m[2] + 3, m[3])))

\* a path whose directory holds another talker's pattern
C7_Witness ==
    /\ fnOp = "file2number"
    /\ fnName = <<"F", "1", "_", "b", "9", "_", "w", "9", "/">>
                    \o <<"M", "3", "_", "b", "2", "4", "_", "w", "0", "2", "_", "o", ".", "w", "a", "v">>
    /\ fnRet = PyInt(740)

\* C8: number2file raises ValueError for every n < 1 and every n > 1200 and
\* returns a name for every n in 1..1200.
C8_Number2FileRange ==
    fnOp = "number2file" =>
        IF fnNum < 1 \/ fnNum > 1200 THEN fnRet.tag = "ValueError" ELSE fnRet.tag = "str"

C8_Witness == fnOp = "number2file" /\ fnNum = 0 /\ fnRet.tag = "ValueError"

\* C9: with the resource missing or malformed the load raises out of process
\* before any trial is handled, after one read in that call, and the store
\* stays unloaded.
C9_LoadFailureIsFatal ==
    resource # "ok" =>
        /\ ~loaded /\ templates = "None"
        /\ pc[1] \notin {"prep", "loop"}
        /\ outcome[1].status # "returned"
        /\ pc[1] = "done" =>
              /\ outcome[1].status = "raised"
              /\ attempts[1] = 1
              /\ padded[1] = <<>> /\ k[1] = 0 /\ scored[1] = {} /\ success[1] = <<>>

C9_Witness ==
    /\ resource = "malformed"
    /\ op[1] = "process"
    /\ Len(batch[1]) = 2
    /\ pc[1] = "done"
    /\ outcome[1].status = "raised"
    /\ attempts[1] = 1

\* C10: once the templates are loaded, no step of any later load_templates or
\* process call of the single caller reads the resource or changes the store.
C10_LoadIsIdempotent ==
    [][loaded => (loaded' /\ reads' = reads /\ templates' = templates)]_vars

\* a process call that found the templates loaded and returned without a read
C10_Witness ==
    /\ loaded
    /\ op[1] = "process"
    /\ outcome[1].status = "returned"
    /\ Len(outcome[1].success) > 0
    /\ attempts[1] = 0

\* the r-th largest of the values v, nan counting as larger than any number
\* (the descending order of lines 608-610)
RankValue(v, r) ==
    LET nums == {b \in 1..Len(v) : ~IsNaN(v[b])}
        nn == Len(v) - Cardinality(nums)
    IN  IF r <= nn THEN NaN
        ELSE CHOOSE x \in {v[b] : b \in nums} :
                 /\ Cardinality({a \in nums : RGt(v[a], x)}) < r - nn
                 /\ Cardinality({a \in nums : ~RGt(x, v[a])}) >= r - nn

RECURSIVE NonNegative(_, _)
\* the values bc[1..b], the negative ones replaced by 0
NonNegative(bc, b) ==
    IF b = 0 THEN <<>>
    ELSE Append(NonNegative(bc, b - 1),
                IF ~IsNaN(bc[b]) /\ bc[b][1] < 0 THEN RInt(0) ELSE bc[b])

\* the number of the 16 retained ranks at which word (n - 1) mod 6 is the
\* lowest of the words whose value is not nan and is not exceeded
MatchingRanks(s, n) ==
    LET col(w) == NonNegative(BandCorr(s, (6 * ((n - 1) \div 6) + w) % NTemplates), NBands)
        cols == <<col(0), col(1), col(2), col(3), col(4), col(5)>>
        best(r) == LET row == [w \in 0..5 |-> RankValue(cols[w + 1], r)]
                       vals == <<row[0], row[1], row[2], row[3], row[4], row[5]>>
                   IN  {w \in 0..5 : /\ ~IsNaN(vals[w + 1])
                                     /\ \A x \in 0..5 : ~RGt(vals[x + 1], vals[w + 1])}
    IN  Cardinality({r \in 1..16 :
                        LET b == best(r)
                        IN  (n - 1) % 6 \in b /\ \A w \in b : w >= (n - 1) % 6})

\* the trials of the input universe that the scorer can be given, each with
\* its number of matching ranks
ScorerCases ==
    {[speech |-> padSpeech(tr.speech), n |-> tr.file_num.num,
      m |-> MatchingRanks(padSpeech(tr.speech), tr.file_num.num)] :
        tr \in {x \in Trials : x.file_num.tag = "int"}}

\* C11: a trial with a defined file number n that entered the scorer gets
\* success m/16, m being the number of the 16 retained ranks whose selected
\* word is (n - 1) mod 6; every success value of process is nan or one of
\* 0, 1/16, ..., 1.
C11_SuccessIsSixteenths ==
    /\ \A j \in Completed :
          ((j - 1) \in scored[1] /\ batch[1][j].file_num.tag = "int") =>
              \E c \in ScorerCases :
                  /\ c.speech = padded[1][j]
                  /\ c.n = batch[1][j].file_num.num
                  /\ success[1][j] = Rat(c.m, 16)
    /\ \A j \in Completed :
          IsNaN(success[1][j]) \/ \E m \in 0..16 : success[1][j] = Rat(m, 16)
    /\ (op[1] = "process" /\ outcome[1].status = "returned") =>
          \A j \in 1..Len(outcome[1].success) :
              \/ IsNaN(outcome[1].success[j])
              \/ \E m \in 0..16 : outcome[1].success[j] = Rat(m, 16)

\* the degraded recording scored in the second word's position: 11 of the 16
\* ranks go to word 1
C11_Witness ==
    /\ op[1] = "process"
    /\ outcome[1].status = "returned"
    /\ batch[1] = <<Trial(SpeechB, PyInt(2)), Trial(SpeechB, PyInt(1))>>
    /\ scored[1] = {0, 1}
    /\ outcome[1].success = <<Rat(11, 16), Rat(5, 16)>>

\* C12: file_order() returns a permutation of 1..1200: 1200 entries, pairwise
\* distinct, their set exactly {1, ..., 1200}; another call returns the same
\* sequence.
C12_FileOrderIsPermutation ==
    fnOp = "file_order" =>
        /\ Len(fnRet) = 1200
        /\ \A i \in 1..Len(fnRet) : \A j \in 1..(i - 1) : fnRet[i] # fnRet[j]
        /\ {fnRet[i] : i \in 1..Len(fnRet)} = 1..1200
        /\ fnRet = file_order

C12_Witness ==
    /\ fnOp = "file_order"
    /\ Len(fnRet) = 1200
    /\ fnRet[1] = 232 /\ fnRet[16] = 885 /\ fnRet[1200] = 713

\* C13: guess_correction(x) = (6/5) * (x - 1/6) for every x: it is linear of
\* slope 6/5, maps 1/6 to 0 and 1 to 1 (and nan to nan).
C13_GuessCorrection ==
    fnOp = "guess_correction" =>
        LET x == fnArg
        IN  /\ IsNaN(x) <=> IsNaN(fnRet)
            /\ ~IsNaN(x) => fnRet[1] * (5 * x[2]) = (6 * x[1] - x[2]) * fnRet[2]
            /\ x = <<1, 6>> => fnRet = <<0, 1>>
            /\ x = <<1, 1>> => fnRet = <<1, 1>>

C13_Witness == fnOp = "guess_correction" /\ fnArg = <<1, 6>> /\ fnRet = <<0, 1>>

\* the number of band rows of A that hold a 1 at bin c
BandsOfBin(A, c) == Cardinality({b \in 1..21 : A[b][c] = 1})

\* C14: in the 21 x 215 band map each of the bins 4..215 (1-based) has a 1 in
\* exactly one band row and 0 in the others; the columns of bins 1..3 are
\* all zero.
C14_BinsInOneBand ==
    fnOp = "_makeAI" =>
        LET A == fnRet.AI
        IN  /\ DOMAIN A = 1..21
            /\ \A b \in 1..21 : DOMAIN A[b] = 1..215 /\ \A c \in 1..215 : A[b][c] \in {0, 1}
            /\ \A c \in 4..215 : BandsOfBin(A, c) = 1
            /\ \A c \in 1..3 : \A b \in 1..21 : A[b][c] = 0

C14_Witness ==
    /\ fnOp = "_makeAI"
    /\ fnRet.AI[1][3] = 0 /\ fnRet.AI[1][4] = 1 /\ fnRet.AI[2][4] = 0
    /\ fnRet.AI[20][76] = 1 /\ fnRet.AI[21][77] = 1 /\ fnRet.AI[21][215] = 1

\* the sum of row b of A
RowSum(A, b) == Cardinality({c \in 1..215 : A[b][c] = 1})

\* C15 (as stated): every one of the 215 columns of the band map sums to
\* exactly 1, and each row sum is the band's size hi - lo + 1.
C15_EveryColumnSumsToOne ==
    fnOp = "_makeAI" =>
        /\ \A c \in 1..215 : BandsOfBin(fnRet.AI, c) = 1
        /\ \A b \in 1..21 : RowSum(fnRet.AI, b) = AIlims[b][2] - AIlims[b][1] + 1

\* C15 (amended): the columns of bins 4..215 sum to exactly 1 and those of
\* bins 1..3 to 0; each row sum, and the band's entry of binsPerBand, is the
\* band's size hi - lo + 1.
C15_ColumnAndRowSums ==
    fnOp = "_makeAI" =>
        /\ \A c \in 1..215 : BandsOfBin(fnRet.AI, c) = IF c >= 4 THEN 1 ELSE 0
        /\ \A b \in 1..21 :
              /\ RowSum(fnRet.AI, b) = AIlims[b][2] - AIlims[b][1] + 1
              /\ fnRet.binsPerBand[b] = AIlims[b][2] - AIlims[b][1] + 1
        /\ DOMAIN fnRet.binsPerBand = 1..21

C15_Witness ==
    /\ fnOp = "_makeAI"
    /\ BandsOfBin(fnRet.AI, 3) = 0
    /\ fnRet.binsPerBand[1] = 1 /\ fnRet.binsPerBand[12] = 3 /\ fnRet.binsPerBand[21] = 139

\* the least value of the full autocorrelation of the padded clip s
MinAutoCorr(s) ==
    SetMin({AutoCorr(s, l) : l \in 0..(Len(s.data) - 1)}
               \cup (IF s.size > Len(s.data) THEN {0} ELSE {}))

\* m > -0.1 or m is nan, for m = MinAutoCorr / energy (nan when the energy is 0)
AboveThreshold(s) == AutoCorr(s, 0) = 0 \/ 10 * MinAutoCorr(s) > -AutoCorr(s, 0)

\* m >= -0.1 or m is nan
AtOrAboveThreshold(s) == AutoCorr(s, 0) = 0 \/ 10 * MinAutoCorr(s) >= -AutoCorr(s, 0)

\* C17 (as stated): a non-empty clip with a defined file number skips the
\* scorer and gets success 0 exactly when m >= -0.1 or m is nan; a clip with
\* m exactly -0.1 is skipped.
C17_GateSkipsAtThreshold ==
    /\ \A j \in Completed :
          (batch[1][j].speech.size > 0 /\ batch[1][j].file_num.tag = "int") =>
              /\ AtOrAboveThreshold(padded[1][j]) <=> (j - 1) \notin scored[1]
              /\ AtOrAboveThreshold(padded[1][j]) => success[1][j] = RInt(0)
    /\ RaisedInLoop =>
          ~(/\ batch[1][k[1] + 1].speech.size > 0
            /\ batch[1][k[1] + 1].file_num.tag = "int"
            /\ AtOrAboveThreshold(padded[1][k[1] + 1]))

\* C17 (amended): a non-empty clip with a defined file number skips the
\* scorer and gets success 0 exactly when m > -0.1 or m is nan; a clip with m
\* exactly -0.1 is scored.
C17_GateSkipsAboveThreshold ==
    /\ \A j \in Completed :
          (batch[1][j].speech.size > 0 /\ batch[1][j].file_num.tag = "int") =>
              /\ AboveThreshold(padded[1][j]) <=> (j - 1) \notin scored[1]
              /\ AboveThreshold(padded[1][j]) => success[1][j] = RInt(0)
    /\ RaisedInLoop =>
          ~(/\ batch[1][k[1] + 1].speech.size > 0
            /\ batch[1][k[1] + 1].file_num.tag = "int"
            /\ AboveThreshold(padded[1][k[1] + 1]))

\* the clip with m = -1/10 is scored (and matches its template)
C17_Witness ==
    /\ op[1] = "process"
    /\ outcome[1].status = "returned"
    /\ batch[1] = <<Trial(ThresholdClip, PyInt(1)), Trial(NoiseClip, PyInt(1))>>
    /\ 10 * MinAutoCorr(padded[1][1]) = -AutoCorr(padded[1][1], 0)
    /\ scored[1] = {0}
    /\ outcome[1].success = <<RInt(1), RInt(0)>>

\* the correlation of R with the width-q window of X at offset i, as the pair
\* <<a, e>> that stands for a / sqrt(e * R.sq); e = 0 for a constant window
WindowScore(X, R, i) ==
    LET q == Len(R.num)
        sum == SumTo([j \in 1..q |-> X[i + j]], q)
        d == [j \in 1..q |-> q * X[i + j] - sum]
    IN  <<SumTo([j \in 1..q |-> d[j] * R.num[j]], q), SumTo([j \in 1..q |-> d[j] * d[j]], q)>>

ScoreIsNaN(X, R, i) == WindowScore(X, R, i)[2] = 0 \/ R.sq = 0

\* the score at offset i is larger than the one at offset j (neither is nan)
ScoreGt(X, R, i, j) ==
    LET x == WindowScore(X, R, i)
        y == WindowScore(X, R, j)
    IN  x[1] * Abs(x[1]) * y[2] > y[1] * Abs(y[1]) * x[2]

\* C18: when R is the normalised width-q slice of X at offset s0 and no
\* other offset scores as high, _group_corr returns exactly s0.
C18_AlignerReturnsOffset ==
    fnOp = "_group_corr" =>
        LET X == fnArg.X
            R == fnArg.R
            q == Len(R.num)
        IN  \A s0 \in 0..(Len(X) - q) :
                (/\ R = TFnorm(SubSeq(X, s0 + 1, s0 + q))
                 /\ ~ScoreIsNaN(X, R, s0)
                 /\ \A j \in 0..(Len(X) - q) :
                       j # s0 => (ScoreIsNaN(X, R, j) \/ ScoreGt(X, R, s0, j)))
                    => fnRet = PyInt(s0)

\* C19: the aligner and the scorer ignore the nan candidates and select the
\* lowest index among the candidates of maximal score, whenever some
\* candidate is not nan.  The aligner's selection is the start shift + 1 of
\* the window that line 596 extracts.
C19_MaxIgnoresNaNFirstWins ==
    /\ fnOp = "_group_corr" =>
           LET X == fnArg.X
               R == fnArg.R
               cand == {i \in 0..(Len(X) - Len(R.num)) : ~ScoreIsNaN(X, R, i)}
           IN  cand # {} =>
                   /\ fnRet.tag = "int"
                   /\ fnRet.num + 1 \in cand
                   /\ \A j \in cand : ~ScoreGt(X, R, j, fnRet.num + 1)
                   /\ \A j \in cand : j < fnRet.num + 1 => ScoreGt(X, R, fnRet.num + 1, j)
    /\ fnOp = "nanargmax" =>
           \A r \in 1..16 :
               LET cand == {w \in 0..5 : ~IsNaN(fnArg[w + 1][r])}
                   Less(x, y) == x[1] * y[2] < y[1] * x[2]
               IN  cand # {} =>
                       /\ fnRet[r].exc = ""
                       /\ fnRet[r].loc \in cand
                       /\ \A w \in cand : ~Less(fnArg[fnRet[r].loc + 1][r], fnArg[w + 1][r])
                       /\ \A w \in cand :
                             w < fnRet[r].loc => Less(fnArg[w + 1][r], fnArg[fnRet[r].loc + 1][r])

\* offset 0 is nan (constant window), offsets 1 and 2 tie: offset 1 is selected
C19_Witness ==
    /\ fnOp = "_group_corr"
    /\ fnArg.X = <<0, 0, 1, 2>>
    /\ fnArg.R = TFnorm(<<0, 1>>)
    /\ ScoreIsNaN(fnArg.X, fnArg.R, 0)
    /\ ~ScoreGt(fnArg.X, fnArg.R, 1, 2) /\ ~ScoreGt(fnArg.X, fnArg.R, 2, 1)
    /\ fnRet = PyInt(0)

\* the talker and the batch in the name of file m: what precedes "_w"
TalkerAndBatch(m) ==
    LET name == number2file(m).str
        cut == CHOOSE c \in 1..(Len(name) - 1) : name[c] = "_" /\ name[c + 1] = "w"
    IN  SubSeq(name, 1, cut - 1)

\* C20: for n in 1..1200 and w in 0..5 the template read has 0-based index
\* 6 * floor((n - 1) / 6) + w, within 0..1199, of the talker and batch of
\* file n; at w = (n - 1) mod 6 it is the template of file n itself.
C20_CandidateTemplates ==
    (fnOp = "templates" /\ fnArg.n \in 1..1200) =>
        /\ fnRet.tag = "int"
        /\ fnRet.num = 6 * ((fnArg.n - 1) \div 6) + fnArg.word
        /\ fnRet.num \in 0..1199
        /\ TalkerAndBatch(fnRet.num + 1) = TalkerAndBatch(fnArg.n)
        /\ fnArg.word = (fnArg.n - 1) % 6 => fnRet.num = fnArg.n - 1

\* file 740 (M3_b24_w2) and word 5: template 743, M3_b24_w6
C20_Witness ==
    /\ fnOp = "templates"
    /\ fnArg = [n |-> 740, word |-> 5]
    /\ fnRet = PyInt(743)
    /\ TalkerAndBatch(744) = <<"M", "3", "_", "b", "2", "4">>

\* the offsets of X at which the aligner's score against R is not nan
Candidates(X, R) == {i \in 0..(Len(X) - Len(R.num)) : ~ScoreIsNaN(X, R, i)}

\* the lowest of the offsets whose score is maximal
BestOffset(X, R) ==
    CHOOSE s \in Candidates(X, R) :
        /\ \A j \in Candidates(X, R) : ~ScoreGt(X, R, j, s)
        /\ \A j \in Candidates(X, R) : j < s => ScoreGt(X, R, s, j)

\* C21: the window that is normalised and correlated with a template of q
\* columns is X[:, s : s + q], s in 0..n-q being the offset of maximal
\* aligner score: it has exactly q columns and lies inside X.  With no
\* offset of defined score there is no window: the alignment raises.
C21_WindowInsideX ==
    fnOp = "window" =>
        LET X == fnArg.X
            q == Len(fnArg.R.num)
        IN  IF Candidates(X, fnArg.R) = {} THEN fnRet.tag = "ValueError"
            ELSE LET s == BestOffset(X, fnArg.R)
                 IN  /\ fnRet.tag = "window"
                     /\ 0 <= s /\ s + q <= Len(X)
                     /\ Len(fnRet.temp) = q
                     /\ \A j \in 1..q : fnRet.temp[j] = X[s + j]
                     /\ fnRet.XX = TFnorm([j \in 1..q |-> X[s + j]])

\* the best offset is 0, where _group_corr returns -1
C21_Witness ==
    /\ fnOp = "window"
    /\ fnArg.X = <<0, 1, 0, 0>>
    /\ fnArg.R = TFnorm(<<0, 1>>)
    /\ BestOffset(fnArg.X, fnArg.R) = 0
    /\ fnRet.tag = "window"
    /\ fnRet.temp = <<0, 1>>

\* what process returns for each trial of the input universe given alone,
\* with the templates loaded
SingleTrialResults == {<<tr, Alone(tr)>> : tr \in Trials}

\* v is the success value of process on the single trial tr
IsSingleResult(tr, v) ==
    \E c \in SingleTrialResults : c[1] = tr /\ c[2].exc = "" /\ c[2].val = v

C23_OwnGroupOnly ==
    \A j \in Completed :
        ((j - 1) \in scored[1] /\ batch[1][j].file_num.tag = "int") =>
            LET n == batch[1][j].file_num.num
            IN  /\ n \in 1..1200
                /\ \A w \in 0..5 :
                      LET at == TemplateAt(templates, first_word(n) - 1 + w)
                      IN  /\ at.exc = ""
                          /\ at.idx \in 0..1199
                          /\ at.idx \div 6 = (n - 1) \div 6

\* the <<talker index, batch, word>> a base name denotes: its first
\* {talker}_b{batch}_w{word}, or <<>> when it holds none
TripleOf(base) ==
    LET places == PatternPlaces(base)
    IN  IF places = {} THEN <<>>
        ELSE LET m == CHOOSE x \in places : \A y \in places : x[1] <= y[1]
             IN  <<TalkerNumber(SubSeq(base, m[1], m[1] + 1)),
                   Decimal(SubSeq(base, m[1] + 4, m[2])),
                   Decimal(SubSeq(base, m[2] + 3, m[3]))>>

\* the one triple of talker 0..3, batch 1..50, word 1..6 numbered n
TripleNumbered(n) == <<(n - 1) \div 300, (((n - 1) % 300) \div 6) + 1, ((n - 1) % 6) + 1>>

\* C24: every integer file2number returns lies in 1..1200, and the name it
\* was returned for denotes the one (talker, batch, word) with that number,
\* so that names of different triples never share a number.
C24_File2NumberInjective ==
    (fnOp = "file2number" /\ fnRet.tag = "int") =>
        /\ fnRet.num \in 1..NTemplates
        /\ TripleOf(BaseOf(fnName)) = TripleNumbered(fnRet.num)

\* C25: in every interleaving of load_templates and process calls, loaded
\* implies that the templates are stored, and a call that passed the loaded
\* test and is about to read the templates finds them stored.
C25_LoadedImpliesTemplates ==
    /\ loaded => templates # "None"
    /\ \A t \in Threads : pc[t] \in {"prep", "loop"} => (loaded /\ templates # "None")

\* one call scores with the stored templates while a concurrent load, begun
\* before the flag was raised, is about to store them again
C25_Witness ==
    /\ loaded
    /\ templates = "TFtemplatesFB"
    /\ op[1] = "process" /\ pc[1] = "loop"
    /\ pc[2] = "ld_store"

\* C26: when process returns for one clip scored against the six file
\* numbers 6j+1 .. 6j+6 of a group, there are six successes, none NaN; they
\* are all 0 if the speech gate rejected the clip and sum to exactly 1
\* otherwise.
C26_GroupSuccessesSumToOne ==
    (fnOp = "process_group" /\ fnRet.tag = "returned") =>
        LET sv == fnRet.success
        IN  /\ Len(sv) = NWords
            /\ \A i \in 1..NWords : ~IsNaN(sv[i])
            /\ IF AboveThreshold(padSpeech(fnArg))
               THEN \A i \in 1..NWords : sv[i] = RInt(0)
               ELSE RSum(sv) = RInt(1)

\* a clip whose sixteen picks are split between two words of the group
C26_Witness ==
    /\ fnOp = "process_group"
    /\ fnArg = SpeechB
    /\ fnNum = 0
    /\ fnRet.tag = "returned"
    /\ fnRet.success = <<Rat(5, 16), Rat(11, 16), RInt(0), RInt(0), RInt(0), RInt(0)>>

====
